---- MODULE Spec2Model ----
(***************************************************************************)
(* State-machine model of OptimizedHeadlineScroller                        *)
(* (src/display/headline_scroller.py): the headline strip, its block list  *)
(* and the scroll cursor.                                                  *)
(*                                                                         *)
(* A pixel column of an image is an integer, 0 for an all-black column.    *)
(* An image is the sequence of its columns, kept run-length encoded: a run *)
(* [value |-> 0, len |-> n] is n black columns, a run [value |-> v,        *)
(* len |-> n] with v > 0 is the columns v, v+1, .., v+n-1.  Headlines are  *)
(* identified by small integers; the bitmap font decides their width.      *)
(***************************************************************************)
EXTENDS Integers, Sequences, FiniteSets, TLC

VARIABLES display_width, scroll_speed, headline_strip, strip_width, scroll_x,
          current_headlines, last_headlines_hash, blocks,
          last_call, trim_entry, display_slice, applied, travelled,
          renderer, frame, clock, data_manager, process_lock,
          news_provider, now

vars == <<display_width, scroll_speed, headline_strip, strip_width, scroll_x,
          current_headlines, last_headlines_hash, blocks,
          last_call, trim_entry, display_slice, applied, travelled,
          renderer, frame, clock, data_manager, process_lock,
          news_provider, now>>

(***************************************************************************)
(* Bounds of the model and constants of the program.                       *)
(***************************************************************************)
MaxHeadlines == 6

\* how far below 0 the cursor is followed when advance_scroll is called with
\* negative arguments
MaxBackward == 10

HashBuckets == 7

MaxTravel == 200

MaxFrames == 9

\* scroll_every_n_frames
ScrollEveryNFrames == 4

\* weather_check_interval, stock_check_interval and news_check_interval
WeatherCheckInterval == 60

StockCheckInterval == 360

NewsCheckInterval == 1800

\* the sleep at the end of an iteration of the fetch loop, in seconds
SleepSeconds == 5

\* the timeout of the join in stop, in seconds
JoinTimeout == 5

\* how far the time runs in the model of the fetch loop
MaxLoopTime == 10

\* NewsProvider.update_interval, in seconds
UpdateInterval == 1800

\* how far the time runs in the model of the news provider
MaxAge == 1900

DefaultDisplayWidth == 64

TrimCheckInterval == 1000

InitialScrollSpeed == 1

\* Python's None for an image
NoImage == << [value |-> -1, len |-> 0] >>

\* Python's None for last_headlines_hash
NoHash == -1

RECURSIVE SumSeq(_)
SumSeq(s) == IF s = <<>> THEN 0 ELSE Head(s) + SumSeq(Tail(s))

Max(a, b) == IF a >= b THEN a ELSE b

Min(a, b) == IF a <= b THEN a ELSE b

(***************************************************************************)
(* Headlines and their rasterization.                                      *)
(***************************************************************************)
default_headlines == <<1, 2, 3>>

\* the headlines that occur in the lists given to the scroller
Headlines == 1..6

\* the lists _build_headline_strip is called with: no headline, one, or
\* two successive ones
BuildLists ==
    { <<>> } \cup { <<a>> : a \in Headlines }
             \cup { <<a, a + 1>> : a \in Headlines \ {6} }

HeadlineLists == { <<>>, <<4>>, <<5, 6>> }

SpeedInputs == {-2, 0, 3}

\* arguments of advance_scroll; 0 stands for None as well ("pixels or ...")
PixelInputs == {0, 60, 500}

\* the arguments of advance_scroll, a negative one included
AnyPixelInputs == PixelInputs \cup {-5}

\* a text is a headline with or without the " • " separator in front of it
Text(separator, headline) == [separator |-> separator, headline |-> headline]

\* get_text_dimensions with the font loaded: the pixel width of a text
TextWidth(text) ==
    (IF text.separator THEN 5 ELSE 0) +
    CASE text.headline = 1 -> 4
      [] text.headline = 2 -> 3
      [] text.headline = 3 -> 5
      [] text.headline = 4 -> 895
      [] text.headline = 5 -> 40
      [] text.headline = 6 -> 25

\* create_text_image: NoImage when the font cannot be loaded, else an image
\* as wide as the text; column k of the text of headline h is numbered
\* 10000 * h + k, counted from the separator, so no two columns are alike
CreateTextImage(text, loaded) ==
    IF ~loaded \/ TextWidth(text) = 0
    THEN NoImage
    ELSE << [value |-> text.headline * 10000
                         + (IF text.separator THEN 0 ELSE 5) + 1,
             len |-> TextWidth(text)] >>

\* BitmapFontAdapter.getsize: (0, 0) when the font cannot be loaded
GetSize(text, loaded) == IF loaded THEN TextWidth(text) ELSE 0

\* what the font manager does for the texts of one call: per text, whether
\* create_text_image finds the font loaded and whether getsize does
FontOutcomes(n) ==
    { [i \in 1..n |-> [image |-> TRUE, size |-> TRUE]],
      [i \in 1..n |-> [image |-> FALSE, size |-> FALSE]],
      [i \in 1..n |-> [image |-> (i # 1), size |-> TRUE]] }

(***************************************************************************)
(* Images (PIL): width, new, crop, paste.                                  *)
(***************************************************************************)
RECURSIVE Width(_)
Width(image) == IF image = <<>> THEN 0 ELSE Head(image).len + Width(Tail(image))

\* the column of an image at position x, counted from 0
RECURSIVE ColumnAt(_, _)
ColumnAt(image, x) ==
    IF x < Head(image).len
    THEN (IF Head(image).value = 0 THEN 0 ELSE Head(image).value + x)
    ELSE ColumnAt(Tail(image), x - Head(image).len)

\* the first n columns of an image
RECURSIVE Take(_, _)
Take(image, n) ==
    IF n <= 0 \/ image = <<>> THEN <<>>
    ELSE IF Head(image).len <= n
         THEN <<Head(image)>> \o Take(Tail(image), n - Head(image).len)
         ELSE << [value |-> Head(image).value, len |-> n] >>

\* an image without its first n columns
RECURSIVE Drop(_, _)
Drop(image, n) ==
    IF n <= 0 \/ image = <<>> THEN image
    ELSE IF Head(image).len <= n
         THEN Drop(Tail(image), n - Head(image).len)
         ELSE << [value |-> IF Head(image).value = 0 THEN 0
                            ELSE Head(image).value + n,
                  len |-> Head(image).len - n] >> \o Tail(image)

\* two images side by side, runs merged at the seam
Join(left, right) ==
    IF left = <<>> THEN right
    ELSE IF right = <<>> THEN left
    ELSE LET l == left[Len(left)]
             r == Head(right)
         IN IF (l.value = 0 /\ r.value = 0)
               \/ (l.value > 0 /\ r.value = l.value + l.len)
            THEN SubSeq(left, 1, Len(left) - 1)
                 \o << [value |-> l.value, len |-> l.len + r.len] >>
                 \o Tail(right)
            ELSE left \o right

\* Image.new('RGB', (width, H), (0, 0, 0))
NewImage(width) == IF width <= 0 THEN <<>> ELSE << [value |-> 0, len |-> width] >>

\* Image.crop((left, 0, right, H)): columns left..right-1, black outside
\* the image
Crop(image, left, right) ==
    Join(NewImage(Min(right, 0) - left),
         Drop(Take(Join(image, NewImage(right - Width(image))), right), left))

\* Image.paste(source, (x, 0)), clipped to the destination
Paste(image, source, x) ==
    Join(Join(Take(image, x), Take(source, Width(image) - x)),
         Drop(image, x + Width(source)))

\* the putpixel loop for one image: only its non-black columns are copied
RECURSIVE PutPixels(_, _, _)
PutPixels(strip, image, current_x) ==
    IF image = <<>> THEN strip
    ELSE PutPixels(IF Head(image).value = 0 THEN strip
                   ELSE Paste(strip, <<Head(image)>>, current_x),
                   Tail(image), current_x + Head(image).len)

\* the paste loop over the images: each one placed after the one before
RECURSIVE PasteImages(_, _, _)
PasteImages(strip, images, current_x) ==
    IF images = <<>> THEN strip
    ELSE PasteImages(PutPixels(strip, Head(images), current_x),
                     Tail(images), current_x + Width(Head(images)))

\* _calculate_headlines_hash: str(hash(tuple(headlines))), a hash of the
\* list that depends on the order of its elements and may collide
RECURSIVE HashFrom(_, _)
HashFrom(headlines, acc) ==
    IF headlines = <<>> THEN acc
    ELSE HashFrom(Tail(headlines), (acc * 3 + Head(headlines)) % HashBuckets)

CalculateHeadlinesHash(headlines) == HashFrom(headlines, 1)

(***************************************************************************)
(* _build_headline_strip                                                   *)
(***************************************************************************)
\* the texts rendered by a build: separator before all but the first
BuildTexts(headlines) ==
    [i \in 1..Len(headlines) |-> Text(i > 1, headlines[i])]

\* AppendTexts without the separator before the first headline
AppendTextsFirstBare(headlines) ==
    [i \in 1..Len(headlines) |-> Text(i > 1, headlines[i])]

\* the texts rendered by an append: separator before every headline
AppendTexts(headlines) ==
    [i \in 1..Len(headlines) |-> Text(TRUE, headlines[i])]

\* the images create_text_image returned, None results left out
HeadlineImages(texts, font) ==
    SelectSeq([i \in 1..Len(texts) |-> CreateTextImage(texts[i], font[i].image)],
              LAMBDA image : image # NoImage)

\* BuildTextWidths without the fallback width of a failed image
BuildTextWidthsNoFallback(texts, font) ==
    [i \in 1..Len(texts) |->
        IF CreateTextImage(texts[i], font[i].image) # NoImage
        THEN Width(CreateTextImage(texts[i], font[i].image))
        ELSE 0]

\* width of a build: image widths, getsize as the fallback of a failed image
BuildTextWidths(texts, font) ==
    [i \in 1..Len(texts) |->
        IF CreateTextImage(texts[i], font[i].image) # NoImage
        THEN Width(CreateTextImage(texts[i], font[i].image))
        ELSE GetSize(texts[i], font[i].size)]

\* a buffer of one display width
BufferWidthSingle(width) == width

\* buffer for smooth looping: display_width * 2
BufferWidth(width) == width * 2

\* _build_headline_strip without its branch for an empty list
BuildHeadlineStripNoEmptyCase(headlines, font, width, old_headlines) ==
    LET texts == BuildTexts(headlines)
        total_width == SumSeq(BuildTextWidths(texts, font)) + BufferWidth(width)
    IN [headline_strip |->
           PasteImages(NewImage(total_width), HeadlineImages(texts, font), 0),
        strip_width |-> total_width,
        current_headlines |-> headlines,
        blocks |-> << [start_pixel |-> 0, end_pixel |-> total_width,
                       headline_count |-> Len(headlines)] >>]

BuildHeadlineStrip(headlines, font, width, old_headlines) ==
    IF headlines = <<>>
    THEN [headline_strip |-> NewImage(width), strip_width |-> width,
          current_headlines |-> old_headlines, blocks |-> <<>>]
    ELSE LET texts == BuildTexts(headlines)
             total_width == SumSeq(BuildTextWidths(texts, font)) + BufferWidth(width)
         IN [headline_strip |->
                PasteImages(NewImage(total_width), HeadlineImages(texts, font), 0),
             strip_width |-> total_width,
             current_headlines |-> headlines,
             blocks |-> << [start_pixel |-> 0, end_pixel |-> total_width,
                            headline_count |-> Len(headlines)] >>]

(***************************************************************************)
(* _append_headlines_to_strip                                              *)
(***************************************************************************)
\* NewBlock with every block counted as one headline
NewBlockCountsOne(block_start, extended_width, new_headlines) ==
    [start_pixel |-> block_start, end_pixel |-> extended_width,
     headline_count |-> 1]

\* NewBlock with a block_start one pixel beyond the old strip
NewBlockGap(block_start, extended_width, new_headlines) ==
    [start_pixel |-> block_start + 1, end_pixel |-> extended_width,
     headline_count |-> Len(new_headlines)]

\* the block an append records: [block_start, extended_width)
NewBlock(block_start, extended_width, new_headlines) ==
    [start_pixel |-> block_start, end_pixel |-> extended_width,
     headline_count |-> Len(new_headlines)]

\* the scroller's strip state as a record, for the operations that change it
Strip(strip, width, headlines, blks) ==
    [headline_strip |-> strip, strip_width |-> width,
     current_headlines |-> headlines, blocks |-> blks]

AppendHeadlinesToStrip(st, new_headlines, font, width) ==
    IF new_headlines = <<>> \/ st.headline_strip = NoImage
    THEN BuildHeadlineStrip(new_headlines, font, width, st.current_headlines)
    ELSE LET new_headline_images == HeadlineImages(AppendTexts(new_headlines), font)
             new_width == SumSeq([i \in 1..Len(new_headline_images) |->
                                     Width(new_headline_images[i])])
             extended_width == st.strip_width + new_width
             extended_strip == Paste(NewImage(extended_width), st.headline_strip, 0)
         IN IF new_headline_images = <<>>
            THEN st
            ELSE Strip(PasteImages(extended_strip, new_headline_images, st.strip_width),
                       extended_width,
                       st.current_headlines \o new_headlines,
                       Append(st.blocks,
                              NewBlock(st.strip_width, extended_width, new_headlines)))

(***************************************************************************)
(* trim_scrolled_blocks                                                    *)
(***************************************************************************)
\* BlocksToTrim with "scroll_x >= end_pixel" as the test
RECURSIVE BlocksToTrimInclusive(_, _)
BlocksToTrimInclusive(blks, x) ==
    IF Len(blks) <= 1 THEN 0
    ELSE IF x >= blks[1].end_pixel THEN 1 + BlocksToTrimInclusive(Tail(blks), x)
         ELSE 0

\* the loop over blocks[:-1]: how many leading blocks, the last one never
\* considered, lie completely behind x; stops at the first that does not
RECURSIVE BlocksToTrim(_, _)
BlocksToTrim(blks, x) ==
    IF Len(blks) <= 1 THEN 0
    ELSE IF x > blks[1].end_pixel THEN 1 + BlocksToTrim(Tail(blks), x)
         ELSE 0

\* TrimAmount read from the first block kept, not the last block trimmed
TrimAmountNextBlock(blks, count) == blks[count + 1].end_pixel

\* trim_amount: up to the end of the last fully-scrolled block
TrimAmount(blks, count) == blks[count].end_pixel

\* ShiftBlocks that adjusts start_pixel only
ShiftBlocksStartOnly(blks, count, trim_amount) ==
    [i \in 1..(Len(blks) - count) |->
        [start_pixel |-> blks[i + count].start_pixel - trim_amount,
         end_pixel |-> blks[i + count].end_pixel,
         headline_count |-> blks[i + count].headline_count]]

\* ShiftBlocks that drops one block more than were trimmed
ShiftBlocksOneMore(blks, count, trim_amount) ==
    [i \in 1..(Len(blks) - count - 1) |->
        [start_pixel |-> blks[i + count + 1].start_pixel - trim_amount,
         end_pixel |-> blks[i + count + 1].end_pixel - trim_amount,
         headline_count |-> blks[i + count + 1].headline_count]]

\* the blocks left over, their positions adjusted
ShiftBlocks(blks, count, trim_amount) ==
    [i \in 1..(Len(blks) - count) |->
        [start_pixel |-> blks[i + count].start_pixel - trim_amount,
         end_pixel |-> blks[i + count].end_pixel - trim_amount,
         headline_count |-> blks[i + count].headline_count]]

\* ScrollAfterTrim that leaves the cursor where it was
ScrollNotAdjusted(x, trim_amount) == x

\* self.scroll_x -= trim_amount
ScrollAfterTrim(x, trim_amount) == x - trim_amount

\* the strip state and the cursor after trim_scrolled_blocks
TrimScrolledBlocks(st, x) ==
    LET count == BlocksToTrim(st.blocks, x)
        trim_amount == TrimAmount(st.blocks, count)
        new_strip == Crop(st.headline_strip, trim_amount, st.strip_width)
    IN IF st.blocks = <<>> \/ Len(st.blocks) <= 1 \/ count = 0
          \/ st.headline_strip = NoImage
       THEN [strip |-> st, scroll_x |-> x]
       ELSE [strip |-> Strip(new_strip, Width(new_strip), st.current_headlines,
                             ShiftBlocks(st.blocks, count, trim_amount)),
             scroll_x |-> ScrollAfterTrim(x, trim_amount)]

(***************************************************************************)
(* get_display_slice                                                       *)
(***************************************************************************)
\* "Ensure scroll position is valid": the cursor the slice is taken at
\* get_display_slice without the guard against a cursor beyond the strip
ValidScrollAsIs(x, width) == x

ValidScroll(x, width) == IF x >= width THEN 0 ELSE x

\* the viewport image for a valid cursor x
\* get_display_slice without the wrap-around branch: the crop ends with
\* the strip
DisplaySliceNoWrap(strip, width, x, viewport) ==
    Crop(strip, x, Min(x + viewport, width))

\* get_display_slice with the wrapped part taken from column 1 of the strip
DisplaySliceWrapShifted(strip, width, x, viewport) ==
    IF x + viewport <= width
    THEN Crop(strip, x, x + viewport)
    ELSE Paste(Paste(NewImage(viewport), Crop(strip, x, width), 0),
               Crop(strip, 1, Min(viewport - (width - x), width) + 1),
               width - x)

DisplaySlice(strip, width, x, viewport) ==
    IF strip = NoImage THEN NewImage(viewport)
    ELSE IF x + viewport <= width
         THEN Crop(strip, x, x + viewport)
         ELSE LET remaining_width == width - x
                  wrap_width == viewport - remaining_width
                  end_slice == Crop(strip, x, width)
                  start_slice == Crop(strip, 0, Min(wrap_width, width))
                  with_end == IF remaining_width > 0
                              THEN Paste(NewImage(viewport), end_slice, 0)
                              ELSE NewImage(viewport)
              IN IF wrap_width > 0
                 THEN Paste(with_end, start_slice, remaining_width)
                 ELSE with_end

(***************************************************************************)
(* advance_scroll                                                          *)
(***************************************************************************)
\* the step without the default: pixels as given
EffectivePixelsAsGiven(pixels, speed) == pixels

\* "pixels = pixels or self.scroll_speed"
EffectivePixels(pixels, speed) == IF pixels = 0 THEN speed ELSE pixels

\* WrapAround that wraps only beyond strip_width
WrapAroundLate(x, width) == IF x > width THEN x % width ELSE x

\* "Handle wrap-around"
WrapAround(x, width) == IF x >= width THEN x % width ELSE x

\* the periodic trim check with a window of one pixel whatever the speed
TrimCheckDueUnitWindow(x, speed) == x % TrimCheckInterval < 1

\* the periodic trim check
TrimCheckDue(x, speed) == x % TrimCheckInterval < speed

\* set_scroll_speed with "max(0, speed)"
ClampSpeedAtZero(speed) == Max(0, speed)

\* "max(1, speed)"
ClampSpeed(speed) == Max(1, speed)

(***************************************************************************)
(* The scroller as a state machine.  last_call records the headline list   *)
(* passed to the last method called, when that was a build or an update,   *)
(* in the specifications that start from CallInit; it stays NotRecorded in *)
(* those that start from Init.  trim_entry records the state in which the last method called entered    *)
(* trim_scrolled_blocks, if it did; display_slice is the image returned by *)
(* get_display_slice, when that was the last method called.                *)
(***************************************************************************)
NotRecorded == [method |-> "not recorded", headlines |-> <<>>]

OtherCall == [method |-> "other", headlines |-> <<>>]

BuildCall(headlines) ==
    [method |-> "_build_headline_strip", headlines |-> headlines]

UpdateCall(headlines) ==
    [method |-> "update_headlines", headlines |-> headlines]

\* the record of a call, where calls are recorded
Record(call) == IF last_call = NotRecorded THEN NotRecorded ELSE call

\* every headline of a list rasterizes under a font outcome
AllRasterize(font) == \A i \in DOMAIN font : font[i].image

(***************************************************************************)
(* applied is the chain of lists H0, H1, .., Hn the strip was made of: the *)
(* list of the build and the lists of the update_headlines calls after it, *)
(* as long as each such list rasterizes completely and no block has been   *)
(* trimmed; a call with an empty list or with the list of the call before  *)
(* it is not part of the chain.  The chain is BrokenChain once a list did  *)
(* not rasterize completely or a block was trimmed, and NoChain where it   *)
(* is not recorded.                                                        *)
(***************************************************************************)
NoChain == << <<-1>> >>

BrokenChain == << <<0>> >>

ChainAfterUpdate(chain, headlines, font) ==
    IF chain = NoChain \/ chain = BrokenChain THEN chain
    ELSE IF headlines = <<>> THEN chain
    ELSE IF headlines = chain[Len(chain)]
         THEN IF Len(chain) > 1 THEN chain ELSE BrokenChain
    ELSE IF AllRasterize(font) THEN Append(chain, headlines)
    ELSE BrokenChain

ChainAfterTrim(chain, removed) ==
    IF chain = NoChain \/ removed = 0 THEN chain ELSE BrokenChain

(***************************************************************************)
(* travelled is the number of pixels advance_scroll has moved the cursor   *)
(* since trim_scrolled_blocks was last called; NotCounted where it is not  *)
(* recorded.                                                               *)
(***************************************************************************)
NotCounted == -1

Travelled(pixels, checked) ==
    IF travelled = NotCounted THEN NotCounted
    ELSE IF checked THEN 0
    ELSE travelled + pixels

CurrentStrip == Strip(headline_strip, strip_width, current_headlines, blocks)

NoTrimCall == [called |-> FALSE, scroll_x |-> 0, strip_width |-> 0,
               blocks |-> <<>>, view |-> <<>>]

TrimCall(st, x, viewport) ==
    [called |-> TRUE, scroll_x |-> x, strip_width |-> st.strip_width,
     blocks |-> st.blocks,
     view |-> DisplaySlice(st.headline_strip, st.strip_width,
                           ValidScroll(x, st.strip_width), viewport)]

SetStrip(st) ==
    /\ headline_strip' = st.headline_strip
    /\ strip_width' = st.strip_width
    /\ current_headlines' = st.current_headlines
    /\ blocks' = st.blocks

(***************************************************************************)
(* The renderer.  The data of a tick is a record of the time data (date,   *)
(* time and AM/PM texts), the weather data, the stock data and the news    *)
(* data; None is NoData.  The static frame buffer is modelled by the data  *)
(* it was drawn from.  frame is the call of render_frame_as_image in       *)
(* progress: its position, its arguments, whether it has rebuilt the       *)
(* static buffer, the static part and the headline slice of the image it   *)
(* composes, and whether it has called advance_scroll.                     *)
(***************************************************************************)
NoData == [none |-> TRUE]

BaseData ==
    [time |-> [date |-> "MON JAN 01", time |-> "11:59", ampm |-> "AM"],
     weather |-> [current_text |-> "SUNNY"],
     stocks |-> [dow_value |-> "100"],
     news |-> [headlines |-> <<>>]]

DataInputs ==
    {BaseData,
     [BaseData EXCEPT !.time.date = "TUE JAN 02"],
     [BaseData EXCEPT !.time.time = "12:00"],
     [BaseData EXCEPT !.time.ampm = "PM"],
     [BaseData EXCEPT !.weather.current_text = "RAIN"],
     [BaseData EXCEPT !.stocks.dow_value = "101"],
     [BaseData EXCEPT !.news.headlines = <<5>>]}

\* the image rebuild_static_frame_buffer draws
StaticFrame(time_data, weather_data, stock_data) ==
    [date |-> time_data.date, time |-> time_data.time, ampm |-> time_data.ampm,
     weather |-> weather_data, stocks |-> stock_data]

\* OptimizedDisplayRenderer.__init__
NewRenderer ==
    [static_frame_buffer |-> NoData, last_date |-> "", last_time |-> "",
     last_ampm |-> "", last_weather_data |-> NoData,
     last_stock_data |-> NoData]

\* check_static_content_changed without the comparison of the AM/PM text
CheckStaticContentChangedNoAmPm(r, time_data, weather_data, stock_data) ==
    \/ r.static_frame_buffer = NoData
    \/ time_data.date # r.last_date
    \/ time_data.time # r.last_time
    \/ weather_data # r.last_weather_data
    \/ stock_data # r.last_stock_data

CheckStaticContentChanged(r, time_data, weather_data, stock_data) ==
    \/ r.static_frame_buffer = NoData
    \/ time_data.date # r.last_date
    \/ time_data.time # r.last_time
    \/ time_data.ampm # r.last_ampm
    \/ weather_data # r.last_weather_data
    \/ stock_data # r.last_stock_data

RebuildStaticFrameBuffer(time_data, weather_data, stock_data) ==
    [static_frame_buffer |-> StaticFrame(time_data, weather_data, stock_data),
     last_date |-> time_data.date, last_time |-> time_data.time,
     last_ampm |-> time_data.ampm, last_weather_data |-> weather_data,
     last_stock_data |-> stock_data]

\* no call of render_frame_as_image in progress
IdleFrame ==
    [pc |-> "idle", data |-> BaseData, rebuilt |-> FALSE, static |-> NoData,
     slice |-> <<>>, advanced |-> FALSE]

\* LEDClock.__init__; signalled records that signal_handler has run,
\* cleanups counts the calls of cleanup, matrix is the state of the display
NewClock ==
    [phase |-> "constructed", running |-> FALSE, frame_count |-> 0,
     last_rendered_time |-> "", last_weather_data |-> NoData,
     last_stock_data |-> NoData, last_news_data |-> NoData,
     signalled |-> FALSE, cleanups |-> 0, matrix |-> "on"]

\* the entries of the data cache; an entry is empty until it is fetched
Keys == {"weather", "stocks", "news"}

EmptyDict == 0

Fetched == {1, 2}

\* what a getter returns for an empty entry
DefaultDict == 3

\* get_current_data reads weather, stocks and news and returns
NextKey(key) ==
    IF key = "weather" THEN "stocks"
    ELSE IF key = "stocks" THEN "news"
    ELSE "idle"

\* the fetch thread between two fetches
IdleFetch == [pc |-> "idle", key |-> "weather", data |-> EmptyDict]

\* the fetch threads that start can create
Tids == {1, 2}

\* ThreadedDataManager.__init__; threads are the fetch loops, none of them
\* created, data_thread is 0 for None, stop is the caller of stop(), forced
\* records the force_update calls not yet served
NewDataManager ==
    [lock |-> "free",
     current_data |-> [key \in Keys |-> EmptyDict],
     fetch |-> IdleFetch,
     read |-> [pc |-> "idle", locked |-> FALSE,
               result |-> [key \in Keys |-> EmptyDict]],
     running |-> FALSE,
     data_thread |-> 0,
     last_update |-> [key \in Keys |-> 0],
     threads |-> [t \in Tids |-> [pc |-> "unborn", key |-> "weather",
                                  current_time |-> 0, since |-> 0]],
     stop |-> [pc |-> "idle", since |-> 0],
     forced |-> [key \in Keys |-> FALSE]]

\* time.time() at construction, in seconds: later than any interval
StartTime == 2000

\* the headlines get_data stores when there is no cache and the fetch fails
PlaceholderHeadlines == <<-1, -2, -3>>

\* NewsProvider.__init__; call, fetched and fresh record the last get_data
NewNewsProvider ==
    [last_update |-> 0, cached_headlines |-> <<>>,
     returned |-> NoData, call |-> 0, fetched |-> FALSE, fresh |-> <<>>]

\* the instances of the application and the lock file
Pids == {1, 2}

NoFile == 0

\* no lock file, every instance about to call acquire
NewProcessLock ==
    [lockfile |-> NoFile,
     proc |-> [pid \in Pids |->
                  [pc |-> "acquire", locked |-> FALSE, old_pid |-> NoFile]]]

\* the renderer, the main loop, the data manager and the process lock
\* after construction
OutsideInit ==
    /\ renderer = NewRenderer
    /\ frame = IdleFrame
    /\ clock = NewClock
    /\ data_manager = NewDataManager
    /\ process_lock = NewProcessLock
    /\ news_provider = NewNewsProvider
    /\ now = StartTime

\* a method of the scroller called on its own leaves the rest alone
OutsideScroller ==
    UNCHANGED <<renderer, frame, clock, data_manager, process_lock, news_provider, now>>

\* all of the scroller
scroller ==
    <<display_width, scroll_speed, headline_strip, strip_width, scroll_x,
      current_headlines, last_headlines_hash, blocks,
      last_call, trim_entry, display_slice, applied, travelled>>

\* __init__ and _create_default_strip
Construct(call, chain, travel) ==
    \E font \in FontOutcomes(Len(default_headlines)) :
        LET st == BuildHeadlineStrip(default_headlines, font,
                                     DefaultDisplayWidth, <<>>)
        IN /\ display_width = DefaultDisplayWidth
           /\ scroll_speed = InitialScrollSpeed
           /\ headline_strip = st.headline_strip
           /\ strip_width = st.strip_width
           /\ scroll_x = 0
           /\ current_headlines = st.current_headlines
           /\ last_headlines_hash = NoHash
           /\ blocks = st.blocks
           /\ last_call = call
           /\ applied = chain
           /\ travelled = travel
           /\ trim_entry = NoTrimCall
           /\ display_slice = <<>>
           /\ OutsideInit

\* the state after construction
Init == Construct(NotRecorded, NoChain, NotCounted)

\* the state after construction, the build it made recorded
CallInit == Construct(BuildCall(default_headlines), NoChain, NotCounted)

\* the state after construction, the chain of lists begun with the build
ChainInit == Construct(NotRecorded, << default_headlines >>, NotCounted)

\* the state after construction, the travel of the cursor counted
TravelInit == Construct(NotRecorded, NoChain, 0)

\* update_headlines(headlines)
\* update_headlines without the fingerprint comparison
UpdateHeadlinesNoFingerprint(headlines, font) ==
    /\ Len(current_headlines) + Len(headlines) <= MaxHeadlines
    /\ IF headlines = <<>>
       THEN UNCHANGED <<headline_strip, strip_width, current_headlines,
                        blocks, last_headlines_hash>>
       ELSE /\ SetStrip(AppendHeadlinesToStrip(CurrentStrip, headlines, font,
                                               display_width))
            /\ last_headlines_hash' = CalculateHeadlinesHash(headlines)
    /\ last_call' = Record(UpdateCall(headlines))
    /\ applied' = ChainAfterUpdate(applied, headlines, font)
    /\ UNCHANGED travelled
    /\ trim_entry' = NoTrimCall
    /\ display_slice' = <<>>
    /\ UNCHANGED <<display_width, scroll_speed, scroll_x>>

\* update_headlines storing the fingerprint of an empty list
UpdateHeadlinesEmptyStored(headlines, font) ==
    /\ Len(current_headlines) + Len(headlines) <= MaxHeadlines
    /\ IF headlines = <<>>
          \/ CalculateHeadlinesHash(headlines) = last_headlines_hash
       THEN /\ UNCHANGED <<headline_strip, strip_width, current_headlines,
                           blocks>>
            /\ last_headlines_hash' = CalculateHeadlinesHash(headlines)
       ELSE /\ SetStrip(AppendHeadlinesToStrip(CurrentStrip, headlines, font,
                                               display_width))
            /\ last_headlines_hash' = CalculateHeadlinesHash(headlines)
    /\ last_call' = Record(UpdateCall(headlines))
    /\ applied' = ChainAfterUpdate(applied, headlines, font)
    /\ UNCHANGED travelled
    /\ trim_entry' = NoTrimCall
    /\ display_slice' = <<>>
    /\ UNCHANGED <<display_width, scroll_speed, scroll_x>>

\* update_headlines(headlines), lines 142-161
UpdateHeadlines(headlines, font) ==
    /\ Len(current_headlines) + Len(headlines) <= MaxHeadlines
    /\ IF headlines = <<>>
          \/ CalculateHeadlinesHash(headlines) = last_headlines_hash
       THEN UNCHANGED <<headline_strip, strip_width, current_headlines,
                        blocks, last_headlines_hash>>
       ELSE /\ SetStrip(AppendHeadlinesToStrip(CurrentStrip, headlines, font,
                                               display_width))
            /\ last_headlines_hash' = CalculateHeadlinesHash(headlines)
    /\ last_call' = Record(UpdateCall(headlines))
    /\ applied' = ChainAfterUpdate(applied, headlines, font)
    /\ UNCHANGED travelled
    /\ trim_entry' = NoTrimCall
    /\ display_slice' = <<>>
    /\ UNCHANGED <<display_width, scroll_speed, scroll_x>>

\* _build_headline_strip(headlines), lines 59-140
BuildStrip(headlines, font) ==
    /\ SetStrip(BuildHeadlineStrip(headlines, font, display_width,
                                   current_headlines))
    /\ last_call' = Record(BuildCall(headlines))
    /\ applied' = IF applied = NoChain THEN NoChain ELSE << headlines >>
    /\ UNCHANGED travelled
    /\ trim_entry' = NoTrimCall
    /\ display_slice' = <<>>
    /\ UNCHANGED <<display_width, scroll_speed, scroll_x, last_headlines_hash>>

\* trim_scrolled_blocks()
TrimBlocks ==
    LET result == TrimScrolledBlocks(CurrentStrip, scroll_x)
    IN /\ SetStrip(result.strip)
       /\ scroll_x' = result.scroll_x
       /\ last_call' = Record(OtherCall)
       /\ applied' = ChainAfterTrim(applied,
                                    Len(blocks) - Len(result.strip.blocks))
       /\ travelled' = Travelled(0, TRUE)
       /\ trim_entry' = TrimCall(CurrentStrip, scroll_x, display_width)
       /\ display_slice' = <<>>
       /\ UNCHANGED <<display_width, scroll_speed, last_headlines_hash>>

\* get_display_slice()
GetDisplaySlice ==
    /\ scroll_x' = IF headline_strip = NoImage THEN scroll_x
                   ELSE ValidScroll(scroll_x, strip_width)
    /\ display_slice' = DisplaySlice(headline_strip, strip_width, scroll_x',
                                     display_width)
    /\ last_call' = Record(OtherCall)
    /\ trim_entry' = NoTrimCall
    /\ UNCHANGED <<display_width, scroll_speed, headline_strip, strip_width,
                   current_headlines, last_headlines_hash, blocks,
                   applied, travelled>>

\* advance_scroll(pixels)
AdvanceScroll(pixels) ==
    /\ IF headline_strip = NoImage
       THEN UNCHANGED <<headline_strip, strip_width, current_headlines,
                        blocks, scroll_x, applied, travelled>>
            /\ trim_entry' = NoTrimCall
       ELSE LET x == WrapAround(scroll_x + EffectivePixels(pixels, scroll_speed),
                                strip_width)
                result == TrimScrolledBlocks(CurrentStrip, x)
            IN IF TrimCheckDue(x, scroll_speed)
               THEN /\ SetStrip(result.strip)
                    /\ scroll_x' = result.scroll_x
                    /\ applied' = ChainAfterTrim(applied,
                                       Len(blocks) - Len(result.strip.blocks))
                    /\ travelled' = Travelled(0, TRUE)
                    /\ trim_entry' = TrimCall(CurrentStrip, x, display_width)
               ELSE /\ scroll_x' = x
                    /\ travelled' =
                          Travelled(EffectivePixels(pixels, scroll_speed), FALSE)
                    /\ trim_entry' = NoTrimCall
                    /\ UNCHANGED <<headline_strip, strip_width,
                                   current_headlines, blocks, applied>>
    /\ last_call' = Record(OtherCall)
    /\ display_slice' = <<>>
    /\ UNCHANGED <<display_width, scroll_speed, last_headlines_hash>>

\* set_scroll_speed(speed)
SetScrollSpeed(speed) ==
    /\ scroll_speed' = ClampSpeed(speed)
    /\ last_call' = Record(OtherCall)
    /\ trim_entry' = NoTrimCall
    /\ display_slice' = <<>>
    /\ UNCHANGED <<display_width, headline_strip, strip_width, scroll_x,
                   current_headlines, last_headlines_hash, blocks,
                   applied, travelled>>

Update ==
    \E headlines \in HeadlineLists :
        \E font \in FontOutcomes(Len(headlines)) :
            UpdateHeadlines(headlines, font) /\ OutsideScroller

Advance == \E pixels \in PixelInputs : AdvanceScroll(pixels) /\ OutsideScroller

Trim == TrimBlocks /\ OutsideScroller

Slice == GetDisplaySlice /\ OutsideScroller

SetSpeed == \E speed \in SpeedInputs : SetScrollSpeed(speed) /\ OutsideScroller

Next == Update \/ Advance \/ Trim \/ Slice \/ SetSpeed

Spec == Init /\ [][Next]_vars

(***************************************************************************)
(* The strip under builds and updates alone: _build_headline_strip called  *)
(* with any list, update_headlines after it.                               *)
(***************************************************************************)
Build ==
    \E headlines \in BuildLists :
        \E font \in FontOutcomes(Len(headlines)) :
            BuildStrip(headlines, font) /\ OutsideScroller

BuildNext == Build \/ Update

BuildSpec == CallInit /\ [][BuildNext]_vars

(***************************************************************************)
(* The scroller under updates while it scrolls, the calls recorded.        *)
(***************************************************************************)
UpdateNext == Update \/ Advance \/ SetSpeed

UpdateSpec == CallInit /\ [][UpdateNext]_vars

(***************************************************************************)
(* The scroller with advance_scroll called with any integer.               *)
(***************************************************************************)
AdvanceAny ==
    \E pixels \in AnyPixelInputs :
        /\ pixels < 0 => scroll_x + pixels >= -MaxBackward
        /\ AdvanceScroll(pixels)
        /\ OutsideScroller

AnyStepNext == Update \/ AdvanceAny \/ SetSpeed

AnyStepSpec == Init /\ [][AnyStepNext]_vars

(***************************************************************************)
(* The render loop alone: headlines arrive, the cursor advances by the     *)
(* default step on every tick, and ticks never stop.                       *)
(***************************************************************************)
Tick == AdvanceScroll(0) /\ OutsideScroller

LiveNext == Update \/ Tick \/ SetSpeed

LiveSpec == Init /\ [][LiveNext]_vars /\ WF_vars(Tick)

\* the same, the travel of the cursor between two trim checks counted
TravelSpec == TravelInit /\ [][LiveNext]_vars

\* the same, the chain of the lists applied recorded
ChainSpec == ChainInit /\ [][LiveNext]_vars

(***************************************************************************)
(* The scroller with the strip rebuilt while it scrolls: a build keeps the *)
(* cursor, so that the cursor can lie beyond a strip built shorter.  The   *)
(* travel of the cursor is counted, and the steps are the long ones, up to *)
(* MaxTravel pixels without a trim check.                                  *)
(***************************************************************************)
AdvanceFar ==
    \E pixels \in PixelInputs \ {0} :
        /\ travelled + pixels <= MaxTravel
        /\ AdvanceScroll(pixels)
        /\ OutsideScroller

DriftNext == Build \/ AdvanceFar \/ Slice

DriftSpec == TravelInit /\ [][DriftNext]_vars

(***************************************************************************)
(* Properties.                                                             *)
(***************************************************************************)
\* the slice get_display_slice would return in the current state
View == DisplaySlice(headline_strip, strip_width,
                     ValidScroll(scroll_x, strip_width), display_width)

\* the number of blocks the trim entered by the last call removed
Removed == Len(trim_entry.blocks) - Len(blocks)

\* the cut the trim entered by the last call made off the strip
TrimmedWidth == trim_entry.strip_width - strip_width

RECURSIVE HeadlineCounts(_)
HeadlineCounts(blks) ==
    IF blks = <<>> THEN 0
    ELSE Head(blks).headline_count + HeadlineCounts(Tail(blks))

\* C1: the cursor is always inside the strip: 0 <= scroll_x < strip_width
C1_CursorInStrip == 0 <= scroll_x /\ scroll_x < strip_width

\* a trim has moved the cursor and left it within a viewport of the strip's end
C1_Witness ==
    /\ trim_entry.called
    /\ Removed > 0
    /\ scroll_x + display_width > strip_width

\* C2: while there are blocks, strip_width is the end_pixel of the last block
C2_StripWidthIsLastEnd ==
    blocks # <<>> => strip_width = blocks[Len(blocks)].end_pixel

\* a trim has removed blocks and left more than one
C2_Witness ==
    /\ trim_entry.called
    /\ Removed > 0
    /\ Len(blocks) >= 2

\* C3: the blocks are ordered and contiguous: the first starts at pixel 0,
\* no block ends before it starts, each starts where the one before ends
C3_BlocksContiguous ==
    /\ blocks # <<>> => blocks[1].start_pixel = 0
    /\ \A i \in 1..Len(blocks) : blocks[i].start_pixel <= blocks[i].end_pixel
    /\ \A i \in 2..Len(blocks) : blocks[i].start_pixel = blocks[i - 1].end_pixel

\* appends and a trim have both happened: several blocks are left, and they
\* hold fewer headlines than were ever appended
C3_Witness ==
    /\ Len(blocks) >= 2
    /\ HeadlineCounts(blocks) < Len(current_headlines)

\* C4: the block list is never empty, and a trim leaves the most recently
\* appended block in it, whatever the cursor position
C4_NeverEmpty ==
    /\ blocks # <<>>
    /\ trim_entry.called =>
          LET before == trim_entry.blocks[Len(trim_entry.blocks)]
              after == blocks[Len(blocks)]
          IN /\ after.headline_count = before.headline_count
             /\ after.end_pixel - after.start_pixel
                  = before.end_pixel - before.start_pixel

\* a trim entered with the cursor in the last block removed all the others
C4_Witness ==
    /\ trim_entry.called
    /\ Len(trim_entry.blocks) >= 2
    /\ Len(blocks) = 1

\* the longest run of leading blocks, the last block left out, that all
\* end at or before x
PassedRunInclusive(blks, x) ==
    CHOOSE n \in 0..(Len(blks) - 1) :
        /\ \A i \in 1..n : blks[i].end_pixel <= x
        /\ n < Len(blks) - 1 => ~(blks[n + 1].end_pixel <= x)

\* the longest run of leading blocks, the last block left out, that all
\* end before x
PassedRunStrict(blks, x) ==
    CHOOSE n \in 0..(Len(blks) - 1) :
        /\ \A i \in 1..n : blks[i].end_pixel < x
        /\ n < Len(blks) - 1 => ~(blks[n + 1].end_pixel < x)

\* the blocks left by the last trim are the blocks it entered with, the
\* first n of them removed
KeptAllBut(n) ==
    /\ Len(blocks) = Len(trim_entry.blocks) - n
    /\ \A i \in 1..Len(blocks) :
          /\ blocks[i].headline_count = trim_entry.blocks[i + n].headline_count
          /\ blocks[i].end_pixel - blocks[i].start_pixel
               = trim_entry.blocks[i + n].end_pixel
                 - trim_entry.blocks[i + n].start_pixel

\* C5 as claimed: a trim entered with two or more blocks removes exactly
\* the longest leading run of non-last blocks with end_pixel <= scroll_x
C5_TrimsInclusiveRun ==
    (trim_entry.called /\ Len(trim_entry.blocks) >= 2) =>
        KeptAllBut(PassedRunInclusive(trim_entry.blocks, trim_entry.scroll_x))

\* C5 as amended: a trim entered with two or more blocks removes exactly
\* the longest leading run of non-last blocks with end_pixel < scroll_x; a
\* block that ends exactly at scroll_x is kept
C5_TrimsStrictRun ==
    (trim_entry.called /\ Len(trim_entry.blocks) >= 2) =>
        KeptAllBut(PassedRunStrict(trim_entry.blocks, trim_entry.scroll_x))

\* a trim removed a block and stopped at a non-last block that ends exactly
\* at the cursor
C5_Witness ==
    /\ trim_entry.called
    /\ Removed >= 1
    /\ Removed + 1 < Len(trim_entry.blocks)
    /\ trim_entry.blocks[Removed + 1].end_pixel = trim_entry.scroll_x

\* C6: after a trim no block ends at or before pixel 0, and the cursor is
\* the cursor on entry less the width cut off the strip, and not negative
C6_TrimKeepsCursor ==
    trim_entry.called =>
        /\ \A i \in 1..Len(blocks) : blocks[i].end_pixel > 0
        /\ scroll_x = trim_entry.scroll_x - TrimmedWidth
        /\ scroll_x >= 0

\* a trim entered one pixel past the end of a block left the cursor at 1
C6_Witness ==
    /\ trim_entry.called
    /\ TrimmedWidth > 0
    /\ scroll_x = 1

\* C7: a trim that removes blocks takes the end_pixel of the last removed
\* block off strip_width, off scroll_x and off both ends of every block
\* left; a trim that removes none leaves all of them as they were
C7_OneTrimmedWidth ==
    trim_entry.called =>
        LET width == IF Removed = 0 THEN 0
                     ELSE trim_entry.blocks[Removed].end_pixel
        IN /\ Removed >= 0
           /\ strip_width = trim_entry.strip_width - width
           /\ scroll_x = trim_entry.scroll_x - width
           /\ \A i \in 1..Len(blocks) :
                 /\ blocks[i].start_pixel
                      = trim_entry.blocks[i + Removed].start_pixel - width
                 /\ blocks[i].end_pixel
                      = trim_entry.blocks[i + Removed].end_pixel - width
                 /\ blocks[i].headline_count
                      = trim_entry.blocks[i + Removed].headline_count

\* a trim removed two blocks at once
C7_Witness ==
    /\ trim_entry.called
    /\ Removed = 2

\* C8 as claimed: an update_headlines call that appends a block leaves the
\* slice get_display_slice returns as it was, at every cursor position
C8_AppendKeepsView ==
    [][Len(blocks') = Len(blocks) + 1 => View' = View]_vars

\* C9 as claimed: a trim that removes blocks leaves the slice
\* get_display_slice returns as it was on entry to the trim
C9_TrimKeepsView ==
    (trim_entry.called /\ Removed > 0) => View = trim_entry.view

\* C10 as claimed: with ticks that never stop, every block but the most
\* recent is removed in the end; as only finitely many blocks are appended,
\* from some time on a single block is left
C10_OldBlocksReclaimed == <>[](Len(blocks) <= 1)

\* C11: a call of update_headlines with the non-empty list that the call
\* right before it was given leaves strip_width, blocks, current_headlines
\* and scroll_x as they were after that first call.
C11_SecondCallChangesNothing ==
    [][(/\ last_call.method = "update_headlines"
        /\ last_call.headlines # <<>>
        /\ last_call' = last_call)
       => UNCHANGED <<strip_width, blocks, current_headlines, scroll_x>>]_vars

\* the state after update_headlines(h) has appended h with the cursor inside
\* the strip, in which the second call with h is made
C11_Witness ==
    /\ last_call.method = "update_headlines"
    /\ last_call.headlines # <<>>
    /\ Len(current_headlines) + Len(last_call.headlines) <= MaxHeadlines
    /\ last_headlines_hash = CalculateHeadlinesHash(last_call.headlines)
    /\ Len(blocks) >= 2
    /\ blocks[Len(blocks)].headline_count = Len(last_call.headlines)
    /\ scroll_x > 0

\* C12: update_headlines with an empty list changes neither the strip, its
\* width, the blocks, current_headlines, the cursor nor the stored
\* fingerprint.
C12_EmptyListChangesNothing ==
    [][(last_call'.method = "update_headlines" /\ last_call'.headlines = <<>>)
       => UNCHANGED <<headline_strip, strip_width, blocks, current_headlines,
                      scroll_x, last_headlines_hash>>]_vars

\* an empty list was passed after a list had been applied and scrolled
C12_Witness ==
    /\ last_call = UpdateCall(<<>>)
    /\ last_headlines_hash # NoHash
    /\ Len(blocks) >= 2
    /\ scroll_x > 0


\* the list that was last applied to the strip: the headlines of the newest
\* block, which are the last ones of current_headlines
LastApplied ==
    SubSeq(current_headlines,
           Len(current_headlines) - blocks[Len(blocks)].headline_count + 1,
           Len(current_headlines))

\* some headline of a list rasterizes under a font outcome
SomeRasterizes(font) == \E i \in DOMAIN font : font[i].image

\* C13: an update_headlines call with a non-empty list that differs from
\* the list last applied to the strip, and of which at least one headline
\* rasterizes, makes strip_width strictly greater and adds exactly one block.
C13_DifferentListAppends ==
    [][\A font \in FontOutcomes(Len(last_call'.headlines)) :
          (/\ last_call'.method = "update_headlines"
           /\ last_call'.headlines # <<>>
           /\ last_call'.headlines # LastApplied
           /\ SomeRasterizes(font)
           /\ UpdateHeadlines(last_call'.headlines, font))
          => /\ strip_width' > strip_width
             /\ Len(blocks') = Len(blocks) + 1]_vars


\* the widths of the separator-prefixed headlines that rasterize
RenderedWidth(headlines, font) ==
    SumSeq([i \in 1..Len(headlines) |->
               IF font[i].image THEN TextWidth(Text(TRUE, headlines[i])) ELSE 0])

\* an update_headlines call that reaches the append with a list of which
\* some headline rasterizes
IsAppend(headlines, font) ==
    /\ headlines # <<>>
    /\ CalculateHeadlinesHash(headlines) # last_headlines_hash
    /\ SomeRasterizes(font)
    /\ UpdateHeadlines(headlines, font)

\* C14: an append adds exactly one block [old strip_width, new strip_width),
\* the width added is the sum of the rendered widths of the
\* separator-prefixed new headlines, and the existing blocks and the cursor
\* are unchanged.
C14_AppendAddsOneBlock ==
    [][\A font \in FontOutcomes(Len(last_call'.headlines)) :
          IsAppend(last_call'.headlines, font)
          => /\ Len(blocks') = Len(blocks) + 1
             /\ blocks'[Len(blocks')].start_pixel = strip_width
             /\ blocks'[Len(blocks')].end_pixel = strip_width'
             /\ strip_width' - strip_width
                   = RenderedWidth(last_call'.headlines, font)
             /\ \A i \in 1..Len(blocks) : blocks'[i] = blocks[i]
             /\ scroll_x' = scroll_x]_vars

\* a two-headline list was appended behind two blocks with the cursor
\* inside the strip
C14_Witness ==
    /\ last_call = UpdateCall(<<5, 6>>)
    /\ Len(blocks) = 3
    /\ blocks[3].headline_count = 2
    /\ blocks[3].end_pixel - blocks[3].start_pixel
          = TextWidth(Text(TRUE, 5)) + TextWidth(Text(TRUE, 6))
    /\ scroll_x > 0


\* the width of a headline in a build: no separator before the first
BuildWidth(headlines, i) == TextWidth(Text(i > 1, headlines[i]))

\* a _build_headline_strip call with a non-empty list
IsBuild(headlines, font) ==
    /\ last_call'.method = "_build_headline_strip"
    /\ headlines # <<>>
    /\ BuildStrip(headlines, font)

\* C15: a build from a non-empty list yields the single block
\* [0, strip_width) with headline_count the length of the list and
\* current_headlines the list; when the headlines are rendered, strip_width
\* is the sum of their widths (separator before all but the first) plus
\* 2 x display_width.
C15_BuildYieldsOneBlock ==
    [][\A font \in FontOutcomes(Len(last_call'.headlines)) :
          IsBuild(last_call'.headlines, font)
          => /\ blocks' = << [start_pixel |-> 0, end_pixel |-> strip_width',
                              headline_count |-> Len(last_call'.headlines)] >>
             /\ current_headlines' = last_call'.headlines
             /\ AllRasterize(font)
                  => strip_width'
                       = SumSeq([i \in 1..Len(last_call'.headlines) |->
                                    BuildWidth(last_call'.headlines, i)])
                         + 2 * display_width]_vars

\* a build from a two-headline list has rendered both headlines
C15_Witness ==
    /\ last_call.method = "_build_headline_strip"
    /\ Len(last_call.headlines) = 2
    /\ Len(blocks) = 1
    /\ strip_width = BuildWidth(last_call.headlines, 1)
                       + BuildWidth(last_call.headlines, 2) + 2 * display_width
    /\ ColumnAt(headline_strip, 0) # 0
    /\ ColumnAt(headline_strip, strip_width - 2 * display_width - 1) # 0

\* the image of a text lies somewhere in the strip
Placed(strip, text) ==
    \E k \in 1..Len(strip) : << strip[k] >> = CreateTextImage(text, TRUE)

\* the rasterized headlines of a list are in the strip
AllPlaced(strip, texts, font) ==
    \A i \in 1..Len(texts) : font[i].image => Placed(strip, texts[i])

\* the width of the headlines of a build that rasterize
RenderedBuildWidth(headlines, font) ==
    SumSeq([i \in 1..Len(headlines) |->
               IF font[i].image THEN BuildWidth(headlines, i) ELSE 0])

\* the width a build counts: a failed headline with the width getsize
\* measures for it
CountedBuildWidth(headlines, font) ==
    SumSeq([i \in 1..Len(headlines) |->
               IF font[i].image \/ font[i].size
               THEN BuildWidth(headlines, i) ELSE 0])

\* an update_headlines call that reaches _append_headlines_to_strip
ReachesAppend(headlines, font) ==
    /\ last_call'.method = "update_headlines"
    /\ headlines # <<>>
    /\ CalculateHeadlinesHash(headlines) # last_headlines_hash
    /\ UpdateHeadlines(headlines, font)

\* C16 as stated: in a build and in an append alike, a headline that fails
\* to rasterize adds no width, the others are placed, and the strip grows
\* by the widths of the rasterized headlines (plus the padding in a build).
C16_FailedAddsNoWidth ==
    [][\A font \in FontOutcomes(Len(last_call'.headlines)) :
          /\ IsBuild(last_call'.headlines, font)
               => /\ strip_width' = RenderedBuildWidth(last_call'.headlines, font)
                                      + 2 * display_width
                  /\ AllPlaced(headline_strip',
                               BuildTexts(last_call'.headlines), font)
          /\ ReachesAppend(last_call'.headlines, font)
               => /\ strip_width' - strip_width
                        = RenderedWidth(last_call'.headlines, font)
                  /\ AllPlaced(headline_strip',
                               AppendTexts(last_call'.headlines), font)]_vars

\* C16 amended: in an append a headline that fails to rasterize adds no
\* width; in a build it adds the width getsize measures for it; in both
\* the headlines that rasterize are placed.
C16_FailedAddsMeasuredWidth ==
    [][\A font \in FontOutcomes(Len(last_call'.headlines)) :
          /\ IsBuild(last_call'.headlines, font)
               => /\ strip_width' = CountedBuildWidth(last_call'.headlines, font)
                                      + 2 * display_width
                  /\ AllPlaced(headline_strip',
                               BuildTexts(last_call'.headlines), font)
          /\ ReachesAppend(last_call'.headlines, font)
               => /\ strip_width' - strip_width
                        = RenderedWidth(last_call'.headlines, font)
                  /\ AllPlaced(headline_strip',
                               AppendTexts(last_call'.headlines), font)]_vars

\* a build in which the first of two headlines failed and was measured:
\* the second headline lies at column 0 and the strip has the width of both
C16_Witness ==
    /\ last_call.method = "_build_headline_strip"
    /\ Len(last_call.headlines) = 2
    /\ strip_width = BuildWidth(last_call.headlines, 1)
                       + BuildWidth(last_call.headlines, 2) + 2 * display_width
    /\ << headline_strip[1] >>
          = CreateTextImage(Text(TRUE, last_call.headlines[2]), TRUE)


\* C17: the slice get_display_slice returns is exactly display_width columns
\* wide, for every cursor and every strip width, in the contiguous and in
\* the wrap-around branch.
C17_SliceIsDisplayWide ==
    display_slice # <<>> => Width(display_slice) = display_width

\* a slice was taken in the wrap-around branch of a strip that a trim left
\* narrower than the display
C17_Witness ==
    /\ display_slice # <<>>
    /\ strip_width < display_width
    /\ scroll_x > 0

\* C18: when strip_width >= display_width and the cursor is inside the
\* strip, column i of the returned slice is strip column
\* (scroll_x + i) mod strip_width, for every i in 0..display_width-1.
C18_SliceColumns ==
    (/\ display_slice # <<>>
     /\ strip_width >= display_width
     /\ 0 <= scroll_x /\ scroll_x < strip_width)
    => \A i \in 0..(display_width - 1) :
          ColumnAt(display_slice, i)
            = ColumnAt(headline_strip, (scroll_x + i) % strip_width)

\* a slice that straddles the end of the strip: its last column shows text
\* of the head of the strip
C18_Witness ==
    /\ display_slice # <<>>
    /\ strip_width >= display_width
    /\ scroll_x + display_width > strip_width
    /\ ColumnAt(headline_strip, 0) # 0
    /\ ColumnAt(display_slice, display_width - 1) # 0


\* C19: scroll_speed is at least 1 in every state, whatever integers
\* set_scroll_speed was called with, and set_scroll_speed(s) with s >= 1
\* sets it to exactly s.
C19_SpeedAtLeastOne ==
    /\ [](scroll_speed >= 1)
    /\ [][\A speed \in SpeedInputs :
             (SetScrollSpeed(speed) /\ speed >= 1) => scroll_speed' = speed]_vars

\* set_scroll_speed(3) was called, and the cursor has moved since
C19_Witness ==
    /\ scroll_speed = 3
    /\ scroll_x > 0


\* the cursor that advance_scroll computed before trim_scrolled_blocks
\* adjusted it
CursorBeforeTrim == IF trim_entry.called THEN trim_entry.scroll_x ELSE scroll_x

BeginFrame(data) ==
    LET changed == CheckStaticContentChanged(renderer, data.time,
                                             data.weather, data.stocks)
    IN /\ renderer' = IF changed
                      THEN RebuildStaticFrameBuffer(data.time, data.weather,
                                                    data.stocks)
                      ELSE renderer
       /\ frame' = [pc |-> "headlines", data |-> data, rebuilt |-> changed,
                    static |-> renderer'.static_frame_buffer,
                    slice |-> <<>>, advanced |-> FALSE]
       /\ UNCHANGED scroller

\* lines 380-383
RenderHeadlines ==
    /\ frame.pc = "headlines"
    /\ LET headlines == frame.data.news.headlines
       IN IF headlines # <<>>
          THEN \E font \in FontOutcomes(Len(headlines)) :
                   UpdateHeadlines(headlines, font)
          ELSE UNCHANGED scroller
    /\ frame' = [frame EXCEPT !.pc = "slice"]
    /\ UNCHANGED <<renderer, clock, data_manager, process_lock, news_provider, now>>

\* the slice is taken and not pasted into the frame
RenderSliceNoPaste ==
    /\ frame.pc = "slice"
    /\ GetDisplaySlice
    /\ frame' = [frame EXCEPT !.pc = "advance"]
    /\ UNCHANGED <<renderer, clock, data_manager, process_lock, news_provider, now>>

\* lines 386-390
RenderSlice ==
    /\ frame.pc = "slice"
    /\ GetDisplaySlice
    /\ frame' = [frame EXCEPT !.pc = "advance", !.slice = display_slice']
    /\ UNCHANGED <<renderer, clock, data_manager, process_lock, news_provider, now>>

\* lines 393-395
RenderAdvance ==
    /\ frame.pc = "advance"
    /\ AdvanceScroll(0)
    /\ frame' = [frame EXCEPT !.pc = "done", !.advanced = TRUE]
    /\ UNCHANGED <<renderer, clock, data_manager, process_lock, news_provider, now>>

\* clear_cache
ClearCache ==
    /\ frame.pc = "idle"
    /\ renderer' = [renderer EXCEPT !.static_frame_buffer = NoData]
    /\ UNCHANGED <<scroller, frame, clock, data_manager, process_lock, news_provider, now>>

(***************************************************************************)
(* The renderer called tick after tick with any data.                      *)
(***************************************************************************)
RenderBegin ==
    \E data \in DataInputs :
        /\ frame.pc = "idle"
        /\ BeginFrame(data)
        /\ UNCHANGED <<clock, data_manager, process_lock, news_provider, now>>

\* the frame is returned
RenderReturn ==
    /\ frame.pc = "done"
    /\ frame' = IdleFrame
    /\ UNCHANGED <<scroller, renderer, clock, data_manager, process_lock, news_provider, now>>

RenderNext ==
    \/ RenderBegin
    \/ RenderHeadlines
    \/ RenderSlice
    \/ RenderAdvance
    \/ RenderReturn
    \/ ClearCache

RenderSpec == Init /\ [][RenderNext]_vars

(***************************************************************************)
(* The main loop of LEDClock.run: every iteration counts a frame, takes    *)
(* the current data and updates the display when should_update_display    *)
(* says so; update_display catches what the rendering raises.  The loop is *)
(* followed for MaxFrames iterations.                                      *)
(***************************************************************************)
ShouldUpdateDisplay(c, data, should_scroll) ==
    \/ should_scroll
    \/ data.time.time # c.last_rendered_time
    \/ data.weather # c.last_weather_data
    \/ data.stocks # c.last_stock_data
    \/ data.news # c.last_news_data

\* run() up to the loop
Run ==
    /\ clock.phase = "constructed"
    /\ clock' = [clock EXCEPT !.phase = "loop", !.running = TRUE]
    /\ UNCHANGED <<scroller, renderer, frame, data_manager, process_lock, news_provider, now>>

\* one iteration up to the call of render_frame_as_image, or all of it when
\* the display is not updated
Iterate ==
    \E data \in DataInputs :
        LET count == clock.frame_count + 1
            should_scroll == count % ScrollEveryNFrames = 0
        IN /\ clock.phase = "loop"
           /\ frame.pc = "idle"
           /\ clock.running
           /\ clock.frame_count < MaxFrames
           /\ clock' = [clock EXCEPT !.frame_count = count]
           /\ UNCHANGED <<data_manager, process_lock, news_provider, now>>
           /\ IF ShouldUpdateDisplay(clock, data, should_scroll)
              THEN BeginFrame(data)
              ELSE UNCHANGED <<scroller, renderer, frame>>

\* render_frame and update_display after the frame is composed:
\* SetImage, swap_canvas and the tracking variables
Present ==
    /\ clock.phase = "loop"
    /\ frame.pc = "done"
    /\ clock' = [clock EXCEPT !.last_rendered_time = frame.data.time.time,
                              !.last_weather_data = frame.data.weather,
                              !.last_stock_data = frame.data.stocks,
                              !.last_news_data = frame.data.news]
    /\ frame' = IdleFrame
    /\ UNCHANGED <<scroller, renderer, data_manager, process_lock, news_provider, now>>

\* the rendering raises an exception that update_display lets through to
\* run, which ends the loop
RenderFailsUncaught ==
    /\ clock.phase = "loop"
    /\ frame.pc \in {"headlines", "slice", "advance", "done"}
    /\ frame' = IdleFrame
    /\ clock' = [clock EXCEPT !.phase = "exited"]
    /\ UNCHANGED <<scroller, renderer, data_manager, process_lock, news_provider, now>>

\* the rendering raises an exception, caught in update_display
RenderFails ==
    /\ clock.phase = "loop"
    /\ frame.pc \in {"headlines", "slice", "advance", "done"}
    /\ frame' = IdleFrame
    /\ UNCHANGED <<scroller, renderer, clock, data_manager, process_lock, news_provider, now>>

\* signal_handler
Signal ==
    /\ clock.phase = "loop"
    /\ clock.running
    /\ clock' = [clock EXCEPT !.running = FALSE]
    /\ UNCHANGED <<scroller, renderer, frame, data_manager, process_lock, news_provider, now>>

\* "while self.running" ends the loop
LoopExit ==
    /\ clock.phase = "loop"
    /\ frame.pc = "idle"
    /\ ~clock.running
    /\ clock' = [clock EXCEPT !.phase = "exited"]
    /\ UNCHANGED <<scroller, renderer, frame, data_manager, process_lock, news_provider, now>>

MainNext ==
    \/ Run
    \/ Iterate
    \/ RenderHeadlines
    \/ RenderSlice
    \/ RenderAdvance
    \/ Present
    \/ RenderFails
    \/ Signal
    \/ LoopExit

MainSpec == Init /\ [][MainNext]_vars

(***************************************************************************)
(* ThreadedDataManager: the background thread fetches one entry at a time  *)
(* from its provider and stores it under _data_lock; get_current_data, on  *)
(* the render thread, reads the three cached entries, each under the lock. *)
(***************************************************************************)
\* a fetch that takes the lock before it calls its provider
FetchStartUnderLock ==
    \E key \in Keys :
        /\ data_manager.fetch.pc = "idle"
        /\ data_manager.lock = "free"
        /\ data_manager' = [data_manager EXCEPT
               !.lock = "fetch",
               !.fetch = [pc |-> "get_data", key |-> key, data |-> EmptyDict]]
        /\ UNCHANGED <<scroller, renderer, frame, clock, process_lock, news_provider, now>>

\* _fetch_weather_data and its like: provider.get_data() is called
FetchStart ==
    \E key \in Keys :
        /\ data_manager.fetch.pc = "idle"
        /\ data_manager' = [data_manager EXCEPT
               !.fetch = [pc |-> "get_data", key |-> key, data |-> EmptyDict]]
        /\ UNCHANGED <<scroller, renderer, frame, clock, process_lock, news_provider, now>>

\* the provider returns its data
FetchReturns ==
    \E data \in Fetched :
        /\ data_manager.fetch.pc = "get_data"
        /\ data_manager' = [data_manager EXCEPT !.fetch.pc = "acquire",
                                                !.fetch.data = data]
        /\ UNCHANGED <<scroller, renderer, frame, clock, process_lock, news_provider, now>>

\* the provider raises; the exception is caught
FetchRaises ==
    /\ data_manager.fetch.pc = "get_data"
    /\ data_manager' = [data_manager EXCEPT !.fetch = IdleFetch]
    /\ UNCHANGED <<scroller, renderer, frame, clock, process_lock, news_provider, now>>

\* "with self._data_lock:"
FetchAcquire ==
    /\ data_manager.fetch.pc = "acquire"
    /\ data_manager.lock = "free"
    /\ data_manager' = [data_manager EXCEPT !.lock = "fetch",
                                            !.fetch.pc = "assign"]
    /\ UNCHANGED <<scroller, renderer, frame, clock, process_lock, news_provider, now>>

\* "self._current_data[key] = data"
FetchAssign ==
    /\ data_manager.fetch.pc = "assign"
    /\ data_manager' = [data_manager EXCEPT
           !.current_data[data_manager.fetch.key] = data_manager.fetch.data,
           !.fetch.pc = "release"]
    /\ UNCHANGED <<scroller, renderer, frame, clock, process_lock, news_provider, now>>

\* the end of the with block
FetchRelease ==
    /\ data_manager.fetch.pc = "release"
    /\ data_manager' = [data_manager EXCEPT !.lock = "free",
                                            !.fetch = IdleFetch]
    /\ UNCHANGED <<scroller, renderer, frame, clock, process_lock, news_provider, now>>

\* get_current_data is called: the time data are taken fresh
ReadStart ==
    /\ data_manager.read.pc = "idle"
    /\ data_manager' = [data_manager EXCEPT
           !.read = [pc |-> "weather", locked |-> FALSE,
                     result |-> [key \in Keys |-> EmptyDict]]]
    /\ UNCHANGED <<scroller, renderer, frame, clock, process_lock, news_provider, now>>

\* get_weather_data, get_stock_data, get_news_data: "with self._data_lock:"
ReadAcquire ==
    /\ data_manager.read.pc \in Keys
    /\ ~data_manager.read.locked
    /\ data_manager.lock = "free"
    /\ data_manager' = [data_manager EXCEPT !.lock = "render",
                                            !.read.locked = TRUE]
    /\ UNCHANGED <<scroller, renderer, frame, clock, process_lock, news_provider, now>>

\* a getter that returns the copy of the entry whatever the entry is
ReadCopyNoDefault ==
    /\ data_manager.read.pc \in Keys
    /\ data_manager.read.locked
    /\ LET key == data_manager.read.pc
       IN data_manager' = [data_manager EXCEPT
              !.lock = "free",
              !.read.locked = FALSE,
              !.read.pc = NextKey(key),
              !.read.result[key] = data_manager.current_data[key]]
    /\ UNCHANGED <<scroller, renderer, frame, clock, process_lock, news_provider, now>>

\* the copy of the entry, or the default, is returned and the lock released
ReadCopy ==
    /\ data_manager.read.pc \in Keys
    /\ data_manager.read.locked
    /\ LET key == data_manager.read.pc
           cached == data_manager.current_data[key]
       IN data_manager' = [data_manager EXCEPT
              !.lock = "free",
              !.read.locked = FALSE,
              !.read.pc = NextKey(key),
              !.read.result[key] = IF cached # EmptyDict THEN cached
                                   ELSE DefaultDict]
    /\ UNCHANGED <<scroller, renderer, frame, clock, process_lock, news_provider, now>>

DataNext ==
    \/ FetchStart
    \/ FetchReturns
    \/ FetchRaises
    \/ FetchAcquire
    \/ FetchAssign
    \/ FetchRelease
    \/ ReadStart
    \/ ReadAcquire
    \/ ReadCopy

\* Whoever holds the lock goes on (it is held for an assignment or a copy);
\* the render thread gets the lock when it is free again and again, as the
\* fetch thread sleeps between its rounds.  Nothing makes a provider return.
DataSpec ==
    /\ Init
    /\ [][DataNext]_vars
    /\ WF_vars(FetchAssign)
    /\ WF_vars(FetchRelease)
    /\ SF_vars(ReadAcquire)
    /\ WF_vars(ReadCopy)

(***************************************************************************)
(* The fetch loop: start creates a thread that fetches everything once and *)
(* then, every five seconds, fetches the entries whose interval has        *)
(* elapsed; force_update_* resets the time of the last update; stop clears *)
(* running and waits up to five seconds for the thread.  A call of         *)
(* _fetch_*_data is one position of the thread here.                       *)
(***************************************************************************)
\* the thread goes to the check of the next entry, or to the sleep
AfterEntry(th, t) ==
    IF NextKey(th.key) = "idle"
    THEN [th EXCEPT !.pc = "sleep", !.since = t]
    ELSE [th EXCEPT !.pc = "check", !.key = NextKey(th.key)]

\* start(): nothing when running, else a new thread
Start ==
    /\ data_manager.stop.pc = "idle"
    /\ IF data_manager.running
       THEN UNCHANGED data_manager
       ELSE \E t \in Tids :
                /\ data_manager.threads[t].pc = "unborn"
                /\ \A u \in Tids :
                       data_manager.threads[u].pc = "unborn" => t <= u
                /\ data_manager' = [data_manager EXCEPT
                       !.running = TRUE,
                       !.data_thread = t,
                       !.threads[t].pc = "initial"]
    /\ UNCHANGED <<scroller, renderer, frame, clock, process_lock,
                   news_provider, now>>

\* stop() up to the join
StopCall ==
    /\ data_manager.stop.pc = "idle"
    /\ data_manager' = [data_manager EXCEPT
           !.running = FALSE,
           !.stop = IF data_manager.data_thread = 0
                    THEN [pc |-> "idle", since |-> 0]
                    ELSE [pc |-> "join", since |-> now]]
    /\ UNCHANGED <<scroller, renderer, frame, clock, process_lock,
                   news_provider, now>>

\* join(timeout=5) returns: the thread has ended, or the time is up
StopReturn ==
    /\ data_manager.stop.pc = "join"
    /\ \/ data_manager.threads[data_manager.data_thread].pc = "dead"
       \/ now >= data_manager.stop.since + JoinTimeout
    /\ data_manager' = [data_manager EXCEPT
           !.stop = [pc |-> "idle", since |-> 0]]
    /\ UNCHANGED <<scroller, renderer, frame, clock, process_lock,
                   news_provider, now>>

\* force_update_weather, force_update_stocks, force_update_news
ForceUpdate ==
    \E key \in Keys :
        /\ data_manager.stop.pc = "idle"
        /\ data_manager.running
        /\ data_manager' = [data_manager EXCEPT !.last_update[key] = 0,
                                                !.forced[key] = TRUE]
        /\ UNCHANGED <<scroller, renderer, frame, clock, process_lock,
                       news_provider, now>>

\* _fetch_all_data at the start of the thread
ThreadInitial(t) ==
    /\ data_manager.threads[t].pc = "initial"
    /\ data_manager' = [data_manager EXCEPT !.threads[t].pc = "while"]
    /\ UNCHANGED <<scroller, renderer, frame, clock, process_lock,
                   news_provider, now>>

\* "while self.running:" and "current_time = time.time()"
LoopWhile(t) ==
    /\ data_manager.threads[t].pc = "while"
    /\ data_manager' = [data_manager EXCEPT
           !.threads[t] = IF data_manager.running
                          THEN [pc |-> "check", key |-> "weather",
                                current_time |-> now, since |-> 0]
                          ELSE [pc |-> "dead", key |-> "weather",
                                current_time |-> 0, since |-> 0]]
    /\ UNCHANGED <<scroller, renderer, frame, clock, process_lock,
                   news_provider, now>>

\* "if (current_time - self._last_*_update) >= self.*_check_interval:" and
\* the call of the fetch when it holds
LoopCheck(t) ==
    LET th == data_manager.threads[t]
        check_interval == IF th.key = "weather" THEN WeatherCheckInterval
                          ELSE IF th.key = "stocks" THEN StockCheckInterval
                          ELSE NewsCheckInterval
    IN /\ th.pc = "check"
       /\ data_manager' =
              IF th.current_time - data_manager.last_update[th.key]
                    >= check_interval
              THEN [data_manager EXCEPT !.threads[t].pc = "fetch",
                                        !.forced[th.key] = FALSE]
              ELSE [data_manager EXCEPT !.threads[t] = AfterEntry(th, now)]
       /\ UNCHANGED <<scroller, renderer, frame, clock, process_lock,
                      news_provider, now>>

\* the fetch returns and "self._last_*_update = current_time"
LoopStamp(t) ==
    LET th == data_manager.threads[t]
    IN /\ th.pc = "fetch"
       /\ data_manager' = [data_manager EXCEPT
              !.last_update[th.key] = th.current_time,
              !.threads[t] = AfterEntry(th, now)]
       /\ UNCHANGED <<scroller, renderer, frame, clock, process_lock,
                      news_provider, now>>

\* "time.sleep(5)" returns
LoopWake(t) ==
    /\ data_manager.threads[t].pc = "sleep"
    /\ now >= data_manager.threads[t].since + SleepSeconds
    /\ data_manager' = [data_manager EXCEPT !.threads[t].pc = "while"]
    /\ UNCHANGED <<scroller, renderer, frame, clock, process_lock,
                   news_provider, now>>

\* the time goes on
LoopTick ==
    /\ now + SleepSeconds <= StartTime + MaxLoopTime
    /\ now' = now + SleepSeconds
    /\ UNCHANGED <<scroller, renderer, frame, clock, data_manager,
                   process_lock, news_provider>>

LoopNext ==
    \/ Start
    \/ StopCall
    \/ StopReturn
    \/ ForceUpdate
    \/ LoopTick
    \/ \E t \in Tids :
          \/ ThreadInitial(t)
          \/ LoopWhile(t)
          \/ LoopCheck(t)
          \/ LoopStamp(t)
          \/ LoopWake(t)

LoopSpec == Init /\ [][LoopNext]_vars

(***************************************************************************)
(* NewsProvider: get_data refreshes the cached headlines when they are     *)
(* stale or missing and returns them.                                      *)
(***************************************************************************)
\* is_stale() at the time t
IsStale(p, t) == t - p.last_update > UpdateInterval

\* a get_data that stores whatever the fetch returned
GetDataStoresAnyFetch(p, t, fresh) ==
    LET fetch == IsStale(p, t) \/ p.cached_headlines = <<>>
        cached == IF fetch THEN fresh ELSE p.cached_headlines
        updated == IF fetch THEN t ELSE p.last_update
    IN [last_update |-> updated, cached_headlines |-> cached,
        returned |-> [headlines |-> cached, count |-> Len(cached),
                      timestamp |-> updated],
        call |-> 1 - p.call, fetched |-> fetch,
        fresh |-> IF fetch THEN fresh ELSE <<>>]

\* get_data at the time t, fetch_all_headlines returning fresh if called
GetData(p, t, fresh) ==
    LET fetch == IsStale(p, t) \/ p.cached_headlines = <<>>
        cached == IF fetch /\ fresh # <<>> THEN fresh
                  ELSE IF fetch /\ p.cached_headlines = <<>>
                       THEN PlaceholderHeadlines
                       ELSE p.cached_headlines
        updated == IF fetch /\ fresh # <<>> THEN t ELSE p.last_update
    IN [last_update |-> updated, cached_headlines |-> cached,
        returned |-> [headlines |-> cached, count |-> Len(cached),
                      timestamp |-> updated],
        call |-> 1 - p.call, fetched |-> fetch,
        fresh |-> IF fetch THEN fresh ELSE <<>>]

\* a call of get_data; fetch_all_headlines returns a list of headlines, the
\* empty list when every source fails
NewsGetData ==
    \E fresh \in HeadlineLists :
        /\ news_provider' = GetData(news_provider, now, fresh)
        /\ UNCHANGED <<scroller, renderer, frame, clock, data_manager,
                       process_lock, now>>

\* force_update
NewsForceUpdate ==
    /\ news_provider' = [news_provider EXCEPT !.last_update = 0]
    /\ UNCHANGED <<scroller, renderer, frame, clock, data_manager,
                   process_lock, now>>

\* time passes between two calls
TimePasses ==
    \E d \in {60, UpdateInterval + 1} :
        /\ now + d <= StartTime + MaxAge
        /\ now' = now + d
        /\ UNCHANGED <<scroller, renderer, frame, clock, data_manager,
                       process_lock, news_provider>>

NewsNext == NewsGetData \/ NewsForceUpdate \/ TimePasses

NewsSpec == Init /\ [][NewsNext]_vars

(***************************************************************************)
(* ProcessLock: two instances of the application, with the pids 1 and 2,   *)
(* use one lock file.  Every access to the file is a step of its own.      *)
(***************************************************************************)
\* is_process_running(pid)
IsProcessRunning(pid) ==
    pid \in Pids /\ process_lock.proc[pid].pc \notin {"refused", "exited"}

\* a step of process pid to the position pc
Goto(pid, pc) == [process_lock EXCEPT !.proc[pid].pc = pc]

\* "if os.path.exists(self.lockfile_path)"
AcquireExists(pid) ==
    /\ process_lock.proc[pid].pc = "acquire"
    /\ process_lock' = Goto(pid, IF process_lock.lockfile # NoFile
                                 THEN "read" ELSE "write")
    /\ UNCHANGED <<scroller, renderer, frame, clock, data_manager, news_provider, now>>

\* the pid in the file is read; a file that is gone raises IOError
AcquireRead(pid) ==
    /\ process_lock.proc[pid].pc = "read"
    /\ process_lock' =
          IF process_lock.lockfile = NoFile
          THEN Goto(pid, "remove")
          ELSE [process_lock EXCEPT
                   !.proc[pid].pc = "is_running",
                   !.proc[pid].old_pid = process_lock.lockfile]
    /\ UNCHANGED <<scroller, renderer, frame, clock, data_manager, news_provider, now>>

\* "if self.is_process_running(old_pid)": return False, or a stale file
AcquireIsRunning(pid) ==
    /\ process_lock.proc[pid].pc = "is_running"
    /\ process_lock' =
          Goto(pid, IF IsProcessRunning(process_lock.proc[pid].old_pid)
                    THEN "refused" ELSE "remove")
    /\ UNCHANGED <<scroller, renderer, frame, clock, data_manager, news_provider, now>>

\* os.remove of the stale or invalid file
AcquireRemove(pid) ==
    /\ process_lock.proc[pid].pc = "remove"
    /\ process_lock' = [process_lock EXCEPT !.lockfile = NoFile,
                                            !.proc[pid].pc = "write"]
    /\ UNCHANGED <<scroller, renderer, frame, clock, data_manager, news_provider, now>>

\* the lock file is written with the own pid; acquire returns True
AcquireWrite(pid) ==
    /\ process_lock.proc[pid].pc = "write"
    /\ process_lock' = [process_lock EXCEPT !.lockfile = pid,
                                            !.proc[pid].pc = "held",
                                            !.proc[pid].locked = TRUE]
    /\ UNCHANGED <<scroller, renderer, frame, clock, data_manager, news_provider, now>>

\* release: "if self.locked and os.path.exists(self.lockfile_path)"
ReleaseExists(pid) ==
    /\ process_lock.proc[pid].pc = "held"
    /\ process_lock' = Goto(pid, IF process_lock.lockfile # NoFile
                                 THEN "verify" ELSE "exited")
    /\ UNCHANGED <<scroller, renderer, frame, clock, data_manager, news_provider, now>>

\* "if pid == os.getpid()"
ReleaseVerify(pid) ==
    /\ process_lock.proc[pid].pc = "verify"
    /\ process_lock' = Goto(pid, IF process_lock.lockfile = pid
                                 THEN "release" ELSE "exited")
    /\ UNCHANGED <<scroller, renderer, frame, clock, data_manager, news_provider, now>>

\* os.remove of the own lock file; a file that is gone raises, and the
\* exception is caught with locked left True
ReleaseRemove(pid) ==
    /\ process_lock.proc[pid].pc = "release"
    /\ process_lock' =
          [process_lock EXCEPT
              !.lockfile = NoFile,
              !.proc[pid].pc = "exited",
              !.proc[pid].locked = process_lock.lockfile = NoFile]
    /\ UNCHANGED <<scroller, renderer, frame, clock, data_manager, news_provider, now>>

\* the process is killed while it holds the lock
Kill(pid) ==
    /\ process_lock.proc[pid].pc = "held"
    /\ process_lock' = Goto(pid, "exited")
    /\ UNCHANGED <<scroller, renderer, frame, clock, data_manager, news_provider, now>>

LockNext ==
    \E pid \in Pids :
        \/ AcquireExists(pid)
        \/ AcquireRead(pid)
        \/ AcquireIsRunning(pid)
        \/ AcquireRemove(pid)
        \/ AcquireWrite(pid)
        \/ ReleaseExists(pid)
        \/ ReleaseVerify(pid)
        \/ ReleaseRemove(pid)
        \/ Kill(pid)

LockSpec == Init /\ [][LockNext]_vars

(***************************************************************************)
(* main() from the lock to the lock: the instance with the pid 1 acquires  *)
(* the process lock, run() installs the signal handlers, starts the data   *)
(* manager and sets running, the loop runs until running is False, cleanup *)
(* stops the data manager and clears the matrix, and main releases the     *)
(* lock.  A signal can arrive between any two steps once the handlers are  *)
(* installed.  The objects are constructed in Init; nothing in their       *)
(* construction touches the lock.                                          *)
(***************************************************************************)
\* "lock.acquire()" in main, with no other instance; this instance has
\* the pid 1
MainAcquire ==
    /\ clock.phase = "constructed"
    /\ AcquireExists(1) \/ AcquireWrite(1)

\* run(): signal.signal(...) and data_manager.start()
RunInstall ==
    /\ clock.phase = "constructed"
    /\ process_lock.proc[1].pc = "held"
    /\ clock' = [clock EXCEPT !.phase = "installed"]
    /\ data_manager' = [data_manager EXCEPT
           !.running = TRUE,
           !.data_thread = 1,
           !.threads[1].pc = "initial"]
    /\ UNCHANGED <<scroller, renderer, frame, process_lock,
                   news_provider, now>>

\* run(): "self.running = True"
RunSetRunning ==
    /\ clock.phase = "installed"
    /\ clock' = [clock EXCEPT !.phase = "loop", !.running = TRUE]
    /\ UNCHANGED <<scroller, renderer, frame, data_manager, process_lock,
                   news_provider, now>>

\* signal_handler, whenever SIGINT or SIGTERM arrives
SignalHandler ==
    /\ clock.phase # "constructed"
    /\ process_lock.proc[1].pc # "exited"
    /\ clock' = [clock EXCEPT !.running = FALSE, !.signalled = TRUE]
    /\ UNCHANGED <<scroller, renderer, frame, data_manager, process_lock,
                   news_provider, now>>

\* cleanup(): data_manager.stop(), which returns within the join timeout
CleanupStop ==
    /\ clock.phase = "exited"
    /\ clock' = [clock EXCEPT !.phase = "stopped",
                              !.cleanups = clock.cleanups + 1]
    /\ data_manager' = [data_manager EXCEPT !.running = FALSE]
    /\ UNCHANGED <<scroller, renderer, frame, process_lock,
                   news_provider, now>>

\* cleanup(): cleanup_matrix()
CleanupMatrix ==
    /\ clock.phase = "stopped"
    /\ clock' = [clock EXCEPT !.phase = "cleared", !.matrix = "cleared"]
    /\ UNCHANGED <<scroller, renderer, frame, data_manager, process_lock,
                   news_provider, now>>

\* "lock.release()" in the finally of main
MainRelease ==
    /\ clock.phase = "cleared"
    /\ \/ ReleaseExists(1)
       \/ ReleaseVerify(1)
       \/ ReleaseRemove(1)

ShutdownNext ==
    \/ MainAcquire
    \/ RunInstall
    \/ RunSetRunning
    \/ Iterate
    \/ RenderHeadlines
    \/ RenderSlice
    \/ RenderAdvance
    \/ Present
    \/ RenderFails
    \/ SignalHandler
    \/ LoopExit
    \/ CleanupStop
    \/ CleanupMatrix
    \/ MainRelease

ShutdownSpec == Init /\ [][ShutdownNext]_vars

(***************************************************************************)
(* C21 .. C30                                                              *)
(***************************************************************************)
\* the lists of a chain, one after the other
RECURSIVE Concatenation(_)
Concatenation(chain) ==
    IF chain = <<>> THEN <<>>
    ELSE Head(chain) \o Concatenation(Tail(chain))

\* the strip was made of a chain of lists and nothing was trimmed from it
ChainKept == applied # NoChain /\ applied # BrokenChain

\* C22: after the build from H0 and the appends of H1..Hn, each different
\* from the list before it and rasterized completely, and no trim, there
\* are n+1 blocks, block i counts len(Hi) headlines, and current_headlines
\* is H0 ++ H1 ++ .. ++ Hn.
C22_BlocksFollowChain ==
    ChainKept =>
        /\ Len(blocks) = Len(applied)
        /\ \A i \in DOMAIN applied : blocks[i].headline_count = Len(applied[i])
        /\ current_headlines = Concatenation(applied)

C22_Witness ==
    /\ applied = << default_headlines, <<5, 6>>, <<4>> >>
    /\ Len(blocks) = 3
    /\ blocks[2].headline_count = 2
    /\ current_headlines = <<1, 2, 3, 5, 6, 4>>
    /\ scroll_x > 0

\* C24: a build from an empty list leaves a blank strip as wide as the
\* display and no block.
C24_EmptyBuildIsBlank ==
    last_call = BuildCall(<<>>) =>
        /\ headline_strip = NewImage(display_width)
        /\ strip_width = display_width
        /\ blocks = <<>>

C24_Witness ==
    /\ last_call = BuildCall(<<>>)
    /\ strip_width = DefaultDisplayWidth
    /\ blocks = <<>>
    /\ current_headlines # <<>>

\* C28: with the default step, the cursor has never travelled more than
\* 1000 + scroll_speed pixels since the last call of trim_scrolled_blocks,
\* the step that reaches the next call included.
C28_TrimCheckEvery1000 ==
    /\ [](travelled <= TrimCheckInterval + scroll_speed)
    /\ [][trim_entry'.called =>
             travelled + EffectivePixels(0, scroll_speed)
                 <= TrimCheckInterval + scroll_speed]_vars

C28_Witness ==
    /\ trim_entry.called
    /\ trim_entry.scroll_x >= TrimCheckInterval
    /\ travelled = 0
    /\ scroll_speed > 1

\* what get_display_slice may change of the scroller
ScrollerState ==
    <<display_width, scroll_speed, headline_strip, strip_width, scroll_x,
      current_headlines, last_headlines_hash, blocks>>

\* C23: get_display_slice entered with scroll_x >= strip_width sets scroll_x
\* to 0 and returns the slice that starts at column 0; entered with
\* scroll_x < strip_width it changes nothing of the scroller.
C23_DriftIsReset ==
    [][GetDisplaySlice =>
          IF scroll_x >= strip_width
          THEN /\ scroll_x' = 0
               /\ display_slice' = Crop(headline_strip, 0, display_width)
          ELSE UNCHANGED ScrollerState]_vars

\* the cursor is at 0 although advance_scroll has not left it there (a step
\* that ends at 0 calls trim_scrolled_blocks): get_display_slice has reset it
C23_Witness ==
    /\ display_slice # <<>>
    /\ display_slice = Crop(headline_strip, 0, display_width)
    /\ scroll_x = 0
    /\ travelled > 0

\* the view at the cursor
ViewAtCursor == DisplaySlice(headline_strip, strip_width, scroll_x, display_width)

\* C21: the slice of a tick is taken after the advance and the trim of that
\* tick: a frame that holds its slice has advanced the cursor.
C21_SliceAfterAdvance == frame.slice # <<>> => frame.advanced

\* C21, as the code does it: the slice of a tick is taken after the append
\* of that tick and before its advance and trim; it is the view at the
\* cursor as the advance finds it.
C21_SliceBeforeAdvance ==
    /\ [](frame.advanced => frame.slice # <<>>)
    /\ [][RenderSlice =>
             (frame.data.news.headlines # <<>> =>
                 last_headlines_hash =
                     CalculateHeadlinesHash(frame.data.news.headlines))]_vars
    /\ [][RenderAdvance => frame.slice = ViewAtCursor]_vars

C21_Witness ==
    /\ frame.pc = "done"
    /\ frame.advanced
    /\ trim_entry.called
    /\ frame.slice # <<>>
    /\ frame.slice # ViewAtCursor
    /\ Len(blocks) = 2

\* the values recorded at the last rebuild
Recorded ==
    [date |-> renderer.last_date, time |-> renderer.last_time,
     ampm |-> renderer.last_ampm, weather |-> renderer.last_weather_data,
     stocks |-> renderer.last_stock_data]

\* the static data of the tick in progress
FrameStatic ==
    StaticFrame(frame.data.time, frame.data.weather, frame.data.stocks)

\* C29: a tick rebuilds the static buffer exactly when the buffer is absent
\* or the static data of the tick differ from the values recorded at the
\* last rebuild, and reuses it otherwise; the buffer and the recorded values
\* are then those of the tick; every tick that returns has emitted a slice
\* and advanced the cursor; clear_cache leaves the buffer absent.
C29_RebuildWhenChanged ==
    /\ [][(frame.pc = "idle" /\ frame'.pc = "headlines") =>
             /\ frame'.rebuilt <=>
                    (renderer.static_frame_buffer = NoData
                        \/ StaticFrame(frame'.data.time, frame'.data.weather,
                                       frame'.data.stocks) # Recorded)
             /\ ~frame'.rebuilt => renderer' = renderer]_vars
    /\ [](frame.pc # "idle" =>
             /\ Recorded = FrameStatic
             /\ renderer.static_frame_buffer = FrameStatic
             /\ frame.static = FrameStatic)
    /\ [](frame.pc = "done" => frame.slice # <<>> /\ frame.advanced)
    /\ [][ClearCache => renderer'.static_frame_buffer = NoData]_vars

\* a tick that reused the buffer, after a change of the AM/PM text had it
\* rebuilt
C29_Witness ==
    /\ frame.pc = "done"
    /\ ~frame.rebuilt
    /\ frame.static = FrameStatic
    /\ renderer.last_ampm = "PM"
    /\ frame.advanced

\* C26: an exception raised while a tick is rendered leaves the loop
\* running, ready for its next iteration, and the loop is left only with
\* running = False.
C26_FailureKeepsLoop ==
    /\ [][RenderFails => clock'.phase = "loop" /\ frame'.pc = "idle"]_vars
    /\ [](clock.phase = "loop" /\ frame.pc = "idle" /\ clock.running
             /\ clock.frame_count < MaxFrames => ENABLED Iterate)
    /\ [](clock.phase = "exited" => ~clock.running)

\* the second tick, after the first tick failed: nothing was ever shown
C26_Witness ==
    /\ clock.phase = "loop"
    /\ clock.running
    /\ clock.frame_count >= 2
    /\ clock.last_rendered_time = ""
    /\ frame.pc = "done"

\* C30: the cursor moves only in iterations whose frame_count is a multiple
\* of scroll_every_n_frames.
C30_ScrollOnlyOnScrollFrames ==
    [][scroll_x' # scroll_x =>
          clock.frame_count % ScrollEveryNFrames = 0]_vars

\* C25: the fetch thread holds the data lock only to replace an entry,
\* never while a provider is fetching, and a call of get_current_data
\* always returns, whatever the fetch thread does and however long a
\* provider takes.
C25_ReadNeverWaitsForFetch ==
    /\ [](data_manager.lock = "fetch" =>
             data_manager.fetch.pc \in {"assign", "release"})
    /\ (data_manager.read.pc # "idle") ~> (data_manager.read.pc = "idle")

\* the render thread reads the news entry while a provider is fetching
C25_Witness ==
    /\ data_manager.fetch.pc = "get_data"
    /\ data_manager.lock = "render"
    /\ data_manager.read.pc = "news"
    /\ data_manager.read.result["weather"] \in Fetched

\* an instance that acquire has answered True, still running and not
\* released
Holds(pid) ==
    /\ process_lock.proc[pid].locked
    /\ process_lock.proc[pid].pc \in {"held", "verify", "release"}

\* C27: of two instances that call acquire on one lock file, at most one
\* holds the lock at a time.
C27_AtMostOneHolder == ~(Holds(1) /\ Holds(2))

(***************************************************************************)
(* C31 .. C39                                                              *)
(***************************************************************************)
\* C37: the strip is never narrower than the display.
C37_StripCoversDisplay == strip_width >= display_width

\* C38: current_headlines has as many headlines as the blocks count.
C38_HeadlinesMatchBlocks == Len(current_headlines) = HeadlineCounts(blocks)

\* C39: last_headlines_hash changes only in a step that appends a block.
C39_FingerprintOfApplied ==
    [][last_headlines_hash' # last_headlines_hash =>
          Len(blocks') = Len(blocks) + 1]_vars

\* C34: every getter of get_current_data returns the stored entry, or the
\* default dictionary when the entry is empty (nothing fetched yet, or the
\* fetch raised), and a finished get_current_data has no empty entry.
C34_ReadIsNeverEmpty ==
    [][/\ \A key \in Keys :
             (data_manager.read.pc = key /\ data_manager'.read.pc = NextKey(key))
             => LET got == data_manager'.read.result[key]
                    cached == data_manager.current_data[key]
                IN /\ got # EmptyDict
                   /\ got = IF cached = EmptyDict THEN DefaultDict ELSE cached
        /\ (data_manager.read.pc = "news" /\ data_manager'.read.pc = "idle")
             => \A k \in Keys : data_manager'.read.result[k] # EmptyDict]_vars

\* a finished read with a default entry next to a fetched one
C34_Witness ==
    /\ data_manager.read.pc = "idle"
    /\ data_manager.read.result["news"] = DefaultDict
    /\ data_manager.read.result["weather"] \in Fetched
    /\ data_manager.current_data["news"] = EmptyDict

\* a step that is a call of get_data
GetDataCalled == news_provider'.call # news_provider.call

\* C33: get_data never returns an empty headline list; a fetch that returns
\* no headlines leaves a non-empty cache and last_update as they were; with
\* no cache it returns the placeholder headlines and leaves last_update, and
\* the call after it fetches again.
C33_NeverEmptyNeverReplaced ==
    [][GetDataCalled =>
         LET failed == news_provider'.fetched /\ news_provider'.fresh = <<>>
             no_cache == news_provider.cached_headlines = <<>>
         IN /\ news_provider'.returned.headlines # <<>>
            /\ news_provider'.returned.headlines
                   = news_provider'.cached_headlines
            /\ (failed /\ ~no_cache)
                  => /\ news_provider'.cached_headlines
                          = news_provider.cached_headlines
                     /\ news_provider'.last_update = news_provider.last_update
            /\ no_cache => news_provider'.fetched
            /\ (failed /\ no_cache)
                  => /\ news_provider'.returned.headlines
                          = PlaceholderHeadlines
                     /\ news_provider'.last_update = news_provider.last_update
                     /\ IsStale(news_provider', now')
            /\ IsStale(news_provider, now) => news_provider'.fetched]_vars

\* a failed refresh of fetched headlines that have become stale
C33_Witness ==
    /\ news_provider.fetched
    /\ news_provider.fresh = <<>>
    /\ news_provider.cached_headlines \in HeadlineLists \ {<<>>}
    /\ news_provider.last_update >= StartTime
    /\ now > news_provider.last_update + UpdateInterval

\* C31: a check of an entry made while a force_update of that entry has not
\* been served calls the fetch of that entry (stated for a single fetch
\* loop, started once and never stopped).
C31_ForcedFetchNotLost ==
    [][\A t \in Tids :
          LET th == data_manager.threads[t]
          IN (/\ \A u \in Tids \ {t} : data_manager.threads[u].pc = "unborn"
              /\ data_manager.running
              /\ th.pc = "check"
              /\ data_manager'.threads[t] # th
              /\ data_manager.forced[th.key])
             => data_manager'.threads[t].pc = "fetch"]_vars

\* C32: at most one fetch thread is created and has not returned.
C32_OneFetchThread ==
    Cardinality({t \in Tids :
                    data_manager.threads[t].pc \notin {"unborn", "dead"}}) <= 1

\* C35: acquire returns False, the lock file as it was, when the file names
\* a running process; it removes a file that names no running process or
\* cannot be read, writes its own pid, sets locked and returns True; release
\* removes the file only when this instance is locked and the file holds
\* its own pid.
C35_AcquireAndRelease ==
    [][\A pid \in Pids :
          LET p == process_lock.proc[pid]
              q == process_lock'.proc[pid]
          IN /\ (p.pc = "is_running" /\ q # p)
                  => IF IsProcessRunning(p.old_pid)
                     THEN /\ q.pc = "refused"
                          /\ ~q.locked
                          /\ process_lock'.lockfile = process_lock.lockfile
                     ELSE q.pc = "remove"
             /\ (p.pc = "remove" /\ q # p)
                  => q.pc = "write" /\ process_lock'.lockfile = NoFile
             /\ (p.pc = "write" /\ q # p)
                  => /\ q.pc = "held"
                     /\ q.locked
                     /\ process_lock'.lockfile = pid
             /\ (p.pc \in {"held", "verify", "release"} /\ q # p
                    /\ process_lock'.lockfile # process_lock.lockfile)
                  => p.locked /\ process_lock.lockfile = pid]_vars

\* C36: once signal_handler has run no further iteration begins; cleanup
\* runs once, stops the data manager and then clears the matrix; the lock
\* is released after that; nothing is rendered once the loop is left.
C36_ShutdownInOrder ==
    [][/\ clock.signalled => clock'.frame_count = clock.frame_count
       /\ clock'.cleanups <= 1
       /\ clock'.matrix = "cleared"
             => ~data_manager'.running /\ clock'.cleanups = 1
       /\ process_lock'.proc[1].pc \in {"verify", "release", "exited"}
             => clock'.matrix = "cleared"
       /\ clock.phase \in {"exited", "stopped", "cleared"}
             => /\ frame' = frame
                /\ renderer' = renderer
                /\ UNCHANGED scroller]_vars

====
